---------------------------- MODULE Spec2Model ----------------------------
(***************************************************************************)
(* A model of the diveharder wrapper's lazy object graph: the memoized     *)
(* collection endpoints (Planets.get_planets, Campaigns.get_campaigns,     *)
(* StatusAPI.get_status), the per-instance reference slots of Planet,      *)
(* Campaign, PlanetStatus and MajorOrderTask, the game-clock conversion    *)
(* and the projection of a task's values/valueTypes arrays.                *)
(*                                                                         *)
(* A library function f whose body continues after a call g(..) is written *)
(* as f(args) == fK(g(..), args): fK is the rest of f's body, given what   *)
(* the call returned.                                                      *)
(***************************************************************************)
EXTENDS Integers, Sequences, FiniteSets, TLC

(***************************************************************************)
(* Bounds of the model.                                                    *)
(***************************************************************************)
NPlanets == 2      \* planets of the upstream payloads, indices 0..NPlanets-1
NCampaigns == 2    \* campaigns of the upstream status payload
MaxClock == 2      \* the upstream game clock runs 0..MaxClock
MaxFetch == 2      \* war_info requests served (each builds new PlanetInfo objects)
MaxOffset == 1     \* relative offsets handed to the clock conversion
NCallers == 2      \* concurrent callers of one accessor
MaxLen == 3        \* length of a task's values / valueTypes arrays

PlanetIds == 0..(NPlanets - 1)
CampaignIds == 1..NCampaigns
Callers == 1..NCallers

(***************************************************************************)
(* Values held in slots and returned by accessors.  An object is named by  *)
(* its class (k), the index of the payload element it was built from (i)   *)
(* and, for PlanetInfo, the war_info request that built it (f).            *)
(***************************************************************************)
None == [k |-> "none", i |-> 0, f |-> 0]
Stop == [k |-> "stop", i |-> 0, f |-> 0]
IntV(n) == [k |-> "int", i |-> n, f |-> 0]
PlanetObj(n) == [k |-> "planet", i |-> n, f |-> 0]
InfoObj(n, req) == [k |-> "info", i |-> n, f |-> req]
StatusObj(n) == [k |-> "pstatus", i |-> n, f |-> 0]
CampaignObj(c) == [k |-> "campaign", i |-> c, f |-> 0]
TaskObj(t) == [k |-> "task", i |-> t, f |-> 0]

IsObject(v) == v.k \in {"planet", "info", "pstatus", "campaign"}

(***************************************************************************)
(* The upstream payloads.                                                  *)
(***************************************************************************)
\* planetIndex of the c-th element of the status payload's "campaigns" list
CampaignPlanetIndex(c) == c % NPlanets

VARIABLES
    clock,         \* upstream game clock (Status.time of a status payload fetched now)
    planetsGen,    \* lru_cache of Planets.get_planets: the one generator it holds
    campaignsGen,  \* lru_cache of Campaigns.get_campaigns: the one generator it holds
    statusMemo,    \* lru_cache of StatusAPI.get_status: the memoized Status
    psPlanet,      \* PlanetStatus._planet of each entry of the memoized Status
    pCache,        \* Planet._cache of each Planet
    cPlanet,       \* Campaign._planet of each Campaign
    wiFetches,     \* war_info requests served so far
    mo,            \* TRUE once get_major_order has built the MajorOrder in hand
    tResolved,     \* per task of that MajorOrder: what its planet accessor first resolved to
    convLog,       \* the two latest successful clock conversions
    entity,        \* the entity instance whose references the caller reads
    last,          \* what the last operation did and returned
    cTarget,       \* the accessor the concurrent callers run
    thr,           \* each concurrent caller's position, fetched value and result
    tIn,           \* the task payload being decoded
    tOut,          \* the outcome of decoding it
    call,          \* a call of a function that reads no client state, with its arguments
    result         \* what that call returned or raised

(***************************************************************************)
(* The client's state as one record, threaded through the operators below. *)
(* nreq counts the HTTP requests of the running operation, nfail those of  *)
(* them that failed, nlook the lookups the entities' accessors made        *)
(* through the API client.                                                 *)
(***************************************************************************)
World ==
    [pg |-> planetsGen, cg |-> campaignsGen, sm |-> statusMemo, ps |-> psPlanet,
     pc |-> pCache, cp |-> cPlanet, wf |-> wiFetches, tr |-> tResolved,
     nreq |-> 0, nfail |-> 0, nlook |-> 0]

Ret(w, err, val) == [w |-> w, err |-> err, val |-> val]

Look(w) == [w EXCEPT !.nlook = @ + 1]

\* A request whose failure is swallowed: the caller gets an empty payload.
ApiRequestSwallow(w, endpoint, net) ==
    IF net[endpoint]
    THEN Ret([w EXCEPT !.nreq = @ + 1], "none", None)
    ELSE Ret([w EXCEPT !.nreq = @ + 1, !.nfail = @ + 1], "none", None)

\* ApiBase._api_request: the request either yields the payload or raises.
ApiRequest(w, endpoint, net) ==
    IF net[endpoint]
    THEN Ret([w EXCEPT !.nreq = @ + 1], "none", None)
    ELSE Ret([w EXCEPT !.nreq = @ + 1, !.nfail = @ + 1], "conn", None)

(***************************************************************************)
(* Planets.get_planets is a generator function under lru_cache(maxsize=1): *)
(* the first call creates the generator and every call returns that same   *)
(* generator.  Its body runs on next(): the request on the first next(),   *)
(* one Planet per next() after it.  A generator that raised is finished.   *)
(***************************************************************************)
GetPlanets(w) ==
    IF w.pg.st = "uncalled" THEN [w EXCEPT !.pg = [st |-> "fresh", pos |-> 0]] ELSE w

\* The generator's body from where it is suspended: r is what the request
\* returned when this next() is the first, pos the planets yielded so far.
PlanetsNextK(r, pos) ==
    IF r.err # "none"
    THEN Ret([r.w EXCEPT !.pg = [st |-> "done", pos |-> 0]], r.err, None)
    ELSE IF pos < NPlanets
         THEN Ret([r.w EXCEPT !.pg = [st |-> "running", pos |-> pos + 1]],
                  "none", PlanetObj(pos))
         ELSE Ret([r.w EXCEPT !.pg = [st |-> "done", pos |-> pos]], "none", Stop)

PlanetsNext(w, net) ==
    IF w.pg.st = "done" THEN Ret(w, "none", Stop)
    ELSE IF w.pg.st = "fresh" THEN PlanetsNextK(ApiRequest(w, "planets", net), w.pg.pos)
    ELSE PlanetsNextK(Ret(w, "none", None), w.pg.pos)

\* Planets.get_planet: for i in self.get_planets(): if int(i.id) == int(id): return i
RECURSIVE GetPlanetLoop(_, _, _)
GetPlanetLoopK(n, id, net) ==
    IF n.err # "none" THEN n
    ELSE IF n.val = Stop THEN Ret(n.w, "none", None)
    ELSE IF id.k # "int" THEN Ret(n.w, "type", None)
    ELSE IF n.val.i = id.i THEN Ret(n.w, "none", n.val)
    ELSE GetPlanetLoop(n.w, id, net)

GetPlanetLoop(w, id, net) == GetPlanetLoopK(PlanetsNext(w, net), id, net)

GetPlanet(w, id, net) == GetPlanetLoop(GetPlanets(w), id, net)

(***************************************************************************)
(* StatusAPI.get_status under lru_cache(maxsize=1): the first call that    *)
(* returns is memoized for the life of the client; a call that raises is   *)
(* not.                                                                    *)
(***************************************************************************)
\* A get_status that answers a failed request with a Status of its own making.
GetStatusKSwallow(r, clk) == Ret(r.w, "none", None)

GetStatusK(r, clk) ==
    IF r.err # "none" THEN r
    ELSE Ret([r.w EXCEPT !.sm = [has |-> TRUE, time |-> clk]], "none", None)

GetStatus(w, net, clk) ==
    IF w.sm.has THEN Ret(w, "none", None)
    ELSE GetStatusK(ApiRequest(w, "status", net), clk)

\* StatusAPI.get_planet_status: the first entry whose _planet equals planet.id.
\* An entry whose _planet slot holds a Planet or None never equals an int.
StatusHits(ps, planet) == {s \in PlanetIds : ps[s] = IntV(planet.i)}
FirstOf(hits) == CHOOSE s \in hits : \A u \in hits : s <= u

GetPlanetStatusK(r, planet) ==
    IF r.err # "none" THEN r
    ELSE IF StatusHits(r.w.ps, planet) = {} THEN Ret(r.w, "none", None)
    ELSE Ret(r.w, "none", StatusObj(FirstOf(StatusHits(r.w.ps, planet))))

GetPlanetStatus(w, planet, net, clk) == GetPlanetStatusK(GetStatus(w, net, clk), planet)

\* WarInfoAPI.get_planet_info: a request per call, new PlanetInfo objects per call.
GetPlanetInfoK(r, planet) ==
    IF r.err # "none" THEN r
    ELSE IF planet.i \in PlanetIds
         THEN Ret([r.w EXCEPT !.wf = @ + 1], "none", InfoObj(planet.i, r.w.wf + 1))
         ELSE Ret([r.w EXCEPT !.wf = @ + 1], "none", None)

GetPlanetInfo(w, planet, net) == GetPlanetInfoK(ApiRequest(w, "war_info", net), planet)

(***************************************************************************)
(* Campaigns.get_campaigns: the same lru_cache-held generator, fed by the  *)
(* "campaigns" list of the status endpoint.                                *)
(***************************************************************************)
GetCampaigns(w) ==
    IF w.cg.st = "uncalled" THEN [w EXCEPT !.cg = [st |-> "fresh", pos |-> 0]] ELSE w

CampaignsNextK(r, pos) ==
    IF r.err # "none"
    THEN Ret([r.w EXCEPT !.cg = [st |-> "done", pos |-> 0]], r.err, None)
    ELSE IF pos < NCampaigns
         THEN Ret([r.w EXCEPT !.cg = [st |-> "running", pos |-> pos + 1]],
                  "none", CampaignObj(pos + 1))
         ELSE Ret([r.w EXCEPT !.cg = [st |-> "done", pos |-> pos]], "none", Stop)

CampaignsNext(w, net) ==
    IF w.cg.st = "done" THEN Ret(w, "none", Stop)
    ELSE IF w.cg.st = "fresh" THEN CampaignsNextK(ApiRequest(w, "status", net), w.cg.pos)
    ELSE CampaignsNextK(Ret(w, "none", None), w.cg.pos)

\* Campaign.planet: resolve _planet through get_planet unless it holds a Planet.
CampaignPlanetK(r, c) ==
    IF r.err # "none" THEN r
    ELSE Ret([r.w EXCEPT !.cp[c] = r.val], "none", r.val)

CampaignPlanet(w, c, net) ==
    IF w.cp[c].k # "planet"
    THEN CampaignPlanetK(GetPlanet(Look(w), w.cp[c], net), c)
    ELSE Ret(w, "none", w.cp[c])

\* Campaigns.get_campaign_by_planet: for i in self.get_campaigns():
\*     if i.planet.id == planet.id: return i
RECURSIVE GetCampaignLoop(_, _, _)
GetCampaignLoopP(p, i, planet, net) ==
    IF p.err # "none" THEN p
    ELSE IF p.val = None THEN Ret(p.w, "attr", None)
    ELSE IF p.val.i = planet.i THEN Ret(p.w, "none", i)
    ELSE GetCampaignLoop(p.w, planet, net)

GetCampaignLoopK(n, planet, net) ==
    IF n.err # "none" THEN n
    ELSE IF n.val = Stop THEN Ret(n.w, "none", None)
    ELSE GetCampaignLoopP(CampaignPlanet(n.w, n.val.i, net), n.val, planet, net)

GetCampaignLoop(w, planet, net) == GetCampaignLoopK(CampaignsNext(w, net), planet, net)

GetCampaignByPlanet(w, planet, net) == GetCampaignLoop(GetCampaigns(w), planet, net)

(***************************************************************************)
(* Planet: the three memoized accessors over Planet._cache, and refresh.   *)
(***************************************************************************)
PlanetInfoPropK(r, p) ==
    IF r.err # "none" THEN r
    ELSE Ret([r.w EXCEPT !.pc[p].planet_info = r.val], "none", r.val)

PlanetInfoProp(w, p, net) ==
    IF w.pc[p].planet_info = None
    THEN PlanetInfoPropK(GetPlanetInfo(Look(w), PlanetObj(p), net), p)
    ELSE Ret(w, "none", w.pc[p].planet_info)

PlanetStatusPropK(r, p) ==
    IF r.err # "none" THEN r
    ELSE Ret([r.w EXCEPT !.pc[p].status = r.val], "none", r.val)

PlanetStatusProp(w, p, net, clk) ==
    IF w.pc[p].status = None
    THEN PlanetStatusPropK(GetPlanetStatus(Look(w), PlanetObj(p), net, clk), p)
    ELSE Ret(w, "none", w.pc[p].status)

PlanetCampaignPropK(r, p) ==
    IF r.err # "none" THEN r
    ELSE Ret([r.w EXCEPT !.pc[p].campaign = r.val], "none", r.val)

PlanetCampaignProp(w, p, net) ==
    IF w.pc[p].campaign = None
    THEN PlanetCampaignPropK(GetCampaignByPlanet(Look(w), PlanetObj(p), net), p)
    ELSE Ret(w, "none", w.pc[p].campaign)

\* Planet.refresh: return self.client.planets.get_planet(self.id)
PlanetRefresh(w, p, net) == GetPlanet(w, IntV(p), net)

\* PlanetStatus.planet: resolve _planet through get_planet unless it holds a Planet.
PlanetStatusPlanetK(r, s) ==
    IF r.err # "none" THEN r
    ELSE Ret([r.w EXCEPT !.ps[s] = r.val], "none", r.val)

PlanetStatusPlanet(w, s, net) ==
    IF w.ps[s].k # "planet"
    THEN PlanetStatusPlanetK(GetPlanet(Look(w), w.ps[s], net), s)
    ELSE Ret(w, "none", w.ps[s])

(***************************************************************************)
(* Task projection: MajorOrder.from_json turns a task's parallel values /  *)
(* valueTypes arrays into the vals dictionary of a MajorOrderTask.         *)
(***************************************************************************)
RACE == 1
UNKNOWN == 2
GOAL == 3
LIBERATE == 11
PLANET_INDEX == 12
ValueTypeCodes == {RACE, UNKNOWN, GOAL, LIBERATE, PLANET_INDEX}

ERADICATE == 3
LIBERATION == 11
DEFENSE == 12
CONTROL == 13
MajorOrderTypeCodes == {ERADICATE, LIBERATION, DEFENSE, CONTROL}

\* A from_json that keys the value by the raw code, without the enum's fallback.
ValueTypeOfRaw(code) == code

\* try: val_type = ValueTypes(code) / except ValueError: val_type = ValueTypes.UNKNOWN
ValueTypeOf(code) == IF code \in ValueTypeCodes THEN code ELSE UNKNOWN

\* The vals dictionary: per tag other than PLANET_INDEX whether the key is set and
\* its value; for PLANET_INDEX whether the key is absent, a list or a scalar.
NoEntry == [has |-> FALSE, v |-> 0]
EmptyVals ==
    [tag |-> [t \in ValueTypeCodes \ {PLANET_INDEX} |-> NoEntry],
     planet |-> [kind |-> "absent", items |-> <<>>]]

\* A projection that keeps the first value of a tag instead of the last.
RECURSIVE ProjectLoopFirst(_, _, _, _)
ProjectLoopFirst(values, valueTypes, j, vals) ==
    IF j > Len(values) THEN [err |-> "none", vals |-> vals]
    ELSE IF j > Len(valueTypes) THEN [err |-> "index", vals |-> vals]
    ELSE IF ValueTypeOf(valueTypes[j]) = PLANET_INDEX
         THEN ProjectLoopFirst(values, valueTypes, j + 1,
                  [vals EXCEPT !.planet = [kind |-> "list",
                                           items |-> Append(@.items, values[j])]])
         ELSE IF vals.tag[ValueTypeOf(valueTypes[j])].has
              THEN ProjectLoopFirst(values, valueTypes, j + 1, vals)
              ELSE ProjectLoopFirst(values, valueTypes, j + 1,
                       [vals EXCEPT !.tag[ValueTypeOf(valueTypes[j])] =
                                        [has |-> TRUE, v |-> values[j]]])

\* for j, value in enumerate(task["values"]): ...   (j is 1-based here)
RECURSIVE ProjectLoop(_, _, _, _)
ProjectLoop(values, valueTypes, j, vals) ==
    IF j > Len(values) THEN [err |-> "none", vals |-> vals]
    ELSE IF j > Len(valueTypes) THEN [err |-> "index", vals |-> vals]
    ELSE IF ValueTypeOf(valueTypes[j]) = PLANET_INDEX
         THEN ProjectLoop(values, valueTypes, j + 1,
                  [vals EXCEPT !.planet = [kind |-> "list",
                                           items |-> Append(@.items, values[j])]])
         ELSE ProjectLoop(values, valueTypes, j + 1,
                  [vals EXCEPT !.tag[ValueTypeOf(valueTypes[j])] =
                                   [has |-> TRUE, v |-> values[j]]])

\* A from_json without the collapse of a one-element list.
CollapseNever(vals) ==
    IF vals.planet.kind = "absent" THEN [err |-> "type", vals |-> vals]
    ELSE [err |-> "none", vals |-> vals]

\* if len(vals.get(PLANET_INDEX)) == 1: vals[PLANET_INDEX] = vals[PLANET_INDEX][0]
\* (len(None) raises TypeError when no value carried the tag)
Collapse(vals) ==
    IF vals.planet.kind = "absent" THEN [err |-> "type", vals |-> vals]
    ELSE IF Len(vals.planet.items) = 1
         THEN [err |-> "none", vals |-> [vals EXCEPT !.planet.kind = "scalar"]]
         ELSE [err |-> "none", vals |-> vals]

\* MajorOrderTask.__init__: self.type = MajorOrderTypes(type)
TaskInit(c, type) ==
    IF c.err # "none" THEN c
    ELSE IF type \notin MajorOrderTypeCodes THEN [err |-> "value", vals |-> c.vals]
    ELSE c

\* One iteration of "for task in json['setting']['tasks']".
TaskFromJsonK(r, type) ==
    IF r.err # "none" THEN r ELSE TaskInit(Collapse(r.vals), type)

TaskFromJson(task) ==
    TaskFromJsonK(ProjectLoop(task.values, task.valueTypes, 1, EmptyVals), task.type)

(***************************************************************************)
(* The major order of the upstream payload: one Liberation task per        *)
(* planet, its values a liberate flag and the planet's index.              *)
(***************************************************************************)
TaskIds == 1..NPlanets
TaskPayload(t) ==
    [type |-> LIBERATION, values |-> <<1, t - 1>>, valueTypes |-> <<LIBERATE, PLANET_INDEX>>]

\* MajorOrderTask.planet: no slot; a lookup through the client on every access.
TaskPlanetK(w, type, planet, net) ==
    IF type = ERADICATE THEN Ret(w, "none", None)
    ELSE IF planet.kind = "scalar" THEN GetPlanet(Look(w), IntV(planet.items[1]), net)
    ELSE IF planet.kind = "list" THEN GetPlanet(Look(w), None, net)
    ELSE Ret(w, "none", None)

TaskPlanet(w, t, net) ==
    TaskPlanetK(w, TaskPayload(t).type, TaskFromJson(TaskPayload(t)).vals.planet, net)

(***************************************************************************)
(* The game-clock conversion (client.fix_timestamp): the relative offset   *)
(* added to the war's start epoch and the game clock of the Status that    *)
(* get_status returns.                                                     *)
(***************************************************************************)
WarStartEpoch == 100

FixTimestampK(r, rel) ==
    IF r.err # "none" THEN r
    ELSE Ret(r.w, "none", IntV(WarStartEpoch + r.w.sm.time + rel))

FixTimestamp(w, rel, net, clk) == FixTimestampK(GetStatus(w, net, clk), rel)

(***************************************************************************)
(* The operations of a single caller.  Each is one call of the library,    *)
(* run to its return or to the exception it raises.                        *)
(***************************************************************************)
Net(okP, okS, okW, okM) ==
    [planets |-> okP, status |-> okS, war_info |-> okW, major_order |-> okM]

Commit(w) ==
    /\ planetsGen' = w.pg
    /\ campaignsGen' = w.cg
    /\ statusMemo' = w.sm
    /\ psPlanet' = w.ps
    /\ pCache' = w.pc
    /\ cPlanet' = w.cp
    /\ wiFetches' = w.wf
    /\ tResolved' = w.tr

\* What the caller sees of an operation: its result or error, the slot's value
\* before it, and the lookups and requests it made.
Obs(op, inst, before, r, items) ==
    [op |-> op, inst |-> inst, before |-> before, res |-> r.val, err |-> r.err,
     look |-> r.w.nlook, nreq |-> r.w.nreq, nfail |-> r.w.nfail, items |-> items]

\* The operation returned (or raised) r: the client keeps r.w, the caller sees r.
Done(r, op, inst, before, items) ==
    /\ Commit(r.w)
    /\ last' = Obs(op, inst, before, r, items)

concVars == <<cTarget, thr>>
projVars == <<tIn, tOut>>
evalVars == <<call, result>>

PlanetExists(p) == p < planetsGen.pos
CampaignExists(c) == c <= campaignsGen.pos

\* The upstream game clock advances between requests.
Tick ==
    /\ clock < MaxClock
    /\ clock' = clock + 1
    /\ UNCHANGED <<planetsGen, campaignsGen, statusMemo, psPlanet, pCache, cPlanet,
                   wiFetches, mo, tResolved, convLog, entity, last, concVars, projVars, evalVars>>

\* next(client.planets.get_planets()): one step of a caller's iteration.
NextPlanet(okP) ==
    /\ Done(PlanetsNext(GetPlanets(World), Net(okP, TRUE, TRUE, TRUE)),
            "planets.next", None, IntV(planetsGen.pos), <<>>)
    /\ UNCHANGED <<clock, mo, convLog, entity, concVars, projVars, evalVars>>

\* list(client.planets.get_planets())
RECURSIVE DrainPlanets(_, _, _)
DrainPlanetsK(n, net, acc) ==
    IF n.err # "none" \/ n.val = Stop THEN [r |-> n, items |-> acc]
    ELSE DrainPlanets(n.w, net, Append(acc, n.val.i))

DrainPlanets(w, net, acc) == DrainPlanetsK(PlanetsNext(w, net), net, acc)

ListDone(d, op, before) == Done(d.r, op, None, before, d.items)

ListPlanets(okP) ==
    /\ ListDone(DrainPlanets(GetPlanets(World), Net(okP, TRUE, TRUE, TRUE), <<>>),
                "planets.list", IntV(planetsGen.pos))
    /\ UNCHANGED <<clock, mo, convLog, entity, concVars, projVars, evalVars>>

\* client.planets.get_planet(id)
CallGetPlanet(id, okP) ==
    /\ Done(GetPlanet(World, IntV(id), Net(okP, TRUE, TRUE, TRUE)),
            "get_planet", IntV(id), IntV(planetsGen.pos), <<>>)
    /\ UNCHANGED <<clock, mo, convLog, entity, concVars, projVars, evalVars>>

\* next(client.campaigns.get_campaigns())
NextCampaign(okS) ==
    /\ Done(CampaignsNext(GetCampaigns(World), Net(TRUE, okS, TRUE, TRUE)),
            "campaigns.next", None, IntV(campaignsGen.pos), <<>>)
    /\ UNCHANGED <<clock, mo, convLog, entity, concVars, projVars, evalVars>>

\* list(client.campaigns.get_campaigns())
RECURSIVE DrainCampaigns(_, _, _)
DrainCampaignsK(n, net, acc) ==
    IF n.err # "none" \/ n.val = Stop THEN [r |-> n, items |-> acc]
    ELSE DrainCampaigns(n.w, net, Append(acc, n.val.i))

DrainCampaigns(w, net, acc) == DrainCampaignsK(CampaignsNext(w, net), net, acc)

ListCampaigns(okS) ==
    /\ ListDone(DrainCampaigns(GetCampaigns(World), Net(TRUE, okS, TRUE, TRUE), <<>>),
                "campaigns.list", IntV(campaignsGen.pos))
    /\ UNCHANGED <<clock, mo, convLog, entity, concVars, projVars, evalVars>>

\* client.status.get_status()
CallGetStatus(okS) ==
    /\ Done(GetStatus(World, Net(TRUE, okS, TRUE, TRUE), clock),
            "get_status", None, None, <<>>)
    /\ UNCHANGED <<clock, mo, convLog, entity, concVars, projVars, evalVars>>

\* client.status.get_planet_status(planet), for a planet the listing yielded
CallGetPlanetStatus(p, okS) ==
    /\ PlanetExists(p)
    /\ Done(GetPlanetStatus(World, PlanetObj(p), Net(TRUE, okS, TRUE, TRUE), clock),
            "get_planet_status", IntV(p), psPlanet[p], <<>>)
    /\ UNCHANGED <<clock, mo, convLog, entity, concVars, projVars, evalVars>>

(***************************************************************************)
(* Reads of the references of the entity in hand.                          *)
(***************************************************************************)
\* planet.planet_info
AccessPlanetInfo(okW) ==
    /\ entity.k = "planet" /\ PlanetExists(entity.i)
    /\ pCache[entity.i].planet_info # None \/ wiFetches < MaxFetch
    /\ Done(PlanetInfoProp(World, entity.i, Net(TRUE, TRUE, okW, TRUE)),
            "planet.planet_info", entity, pCache[entity.i].planet_info, <<>>)
    /\ UNCHANGED <<clock, mo, convLog, entity, concVars, projVars, evalVars>>

\* planet.status
AccessStatus(okS) ==
    /\ entity.k = "planet" /\ PlanetExists(entity.i)
    /\ Done(PlanetStatusProp(World, entity.i, Net(TRUE, okS, TRUE, TRUE), clock),
            "planet.status", entity, pCache[entity.i].status, <<>>)
    /\ UNCHANGED <<clock, mo, convLog, entity, concVars, projVars, evalVars>>

\* planet.campaign
AccessCampaign(okP, okS) ==
    /\ entity.k = "planet" /\ PlanetExists(entity.i)
    /\ Done(PlanetCampaignProp(World, entity.i, Net(okP, okS, TRUE, TRUE)),
            "planet.campaign", entity, pCache[entity.i].campaign, <<>>)
    /\ UNCHANGED <<clock, mo, convLog, entity, concVars, projVars, evalVars>>

\* planet.refresh()
Refresh(okP) ==
    /\ entity.k = "planet" /\ PlanetExists(entity.i)
    /\ Done(PlanetRefresh(World, entity.i, Net(okP, TRUE, TRUE, TRUE)),
            "planet.refresh", entity, None, <<>>)
    /\ UNCHANGED <<clock, mo, convLog, entity, concVars, projVars, evalVars>>

\* campaign.planet
AccessCampaignPlanet(okP) ==
    /\ entity.k = "campaign" /\ CampaignExists(entity.i)
    /\ Done(CampaignPlanet(World, entity.i, Net(okP, TRUE, TRUE, TRUE)),
            "campaign.planet", entity, cPlanet[entity.i], <<>>)
    /\ UNCHANGED <<clock, mo, convLog, entity, concVars, projVars, evalVars>>

\* The payloads' health figures: PlanetStatus.health of the status entry of
\* planet p and PlanetInfo.max_health of planet p.
HealthOf(p) == p + 1
MaxHealthOf(p) == 2 * NPlanets

\* round(x, 2) of the fraction n / d, in hundredths (ties to even)
RoundDiv(n, d) ==
    IF 2 * (n % d) < d THEN n \div d
    ELSE IF 2 * (n % d) > d THEN (n \div d) + 1
    ELSE (n \div d) + ((n \div d) % 2)

\* Campaign.liberation_percentage:
\* round(100 - ((self.planet.health / self.planet.max_health) * 100), 2)
LiberationI(i, s) ==
    IF i.err # "none" THEN i
    ELSE IF i.val = None THEN Ret(i.w, "attr", None)
    ELSE Ret(i.w, "none",
             IntV(RoundDiv(10000 * MaxHealthOf(i.val.i) - 10000 * HealthOf(s.i),
                           MaxHealthOf(i.val.i))))

LiberationS(s, p, net) ==
    IF s.err # "none" THEN s
    ELSE IF s.val = None THEN Ret(s.w, "attr", None)
    ELSE LiberationI(PlanetInfoProp(s.w, p, net), s.val)

LiberationP(p, net, clk) ==
    IF p.err # "none" THEN p
    ELSE IF p.val = None THEN Ret(p.w, "attr", None)
    ELSE LiberationS(PlanetStatusProp(p.w, p.val.i, net, clk), p.val.i, net)

Liberation(w, c, net, clk) == LiberationP(CampaignPlanet(w, c, net), net, clk)

\* campaign.liberation_percentage
AccessLiberation(okP, okS, okW) ==
    /\ entity.k = "campaign" /\ CampaignExists(entity.i)
    /\ Done(Liberation(World, entity.i, Net(okP, okS, okW, TRUE), clock),
            "campaign.liberation", entity, cPlanet[entity.i], <<>>)
    /\ UNCHANGED <<clock, mo, convLog, entity, concVars, projVars, evalVars>>

\* planet_status.planet, on an entry of the memoized Status
AccessStatusPlanet(okP) ==
    /\ entity.k = "pstatus" /\ statusMemo.has
    /\ Done(PlanetStatusPlanet(World, entity.i, Net(okP, TRUE, TRUE, TRUE)),
            "planet_status.planet", entity, psPlanet[entity.i], <<>>)
    /\ UNCHANGED <<clock, mo, convLog, entity, concVars, projVars, evalVars>>

\* task.planet, on a task of the MajorOrder in hand.  tResolved remembers the
\* first object the accessor resolved to (the task itself keeps nothing).
Remember(r, t) ==
    IF r.w.tr[t] = None /\ r.err = "none" /\ IsObject(r.val)
    THEN Ret([r.w EXCEPT !.tr[t] = r.val], r.err, r.val)
    ELSE r

AccessTaskPlanet(okP) ==
    /\ entity.k = "task" /\ mo
    /\ Done(Remember(TaskPlanet(World, entity.i, Net(okP, TRUE, TRUE, TRUE)), entity.i),
            "task.planet", entity, tResolved[entity.i], <<>>)
    /\ UNCHANGED <<clock, mo, convLog, entity, concVars, projVars, evalVars>>

(***************************************************************************)
(* Construction of the entities that carry a converted timestamp.          *)
(***************************************************************************)
PushConv(log, c) == IF Len(log) < 2 THEN Append(log, c) ELSE <<log[2], c>>

Converted(r, rel, op) ==
    /\ Done(r, op, IntV(rel), IntV(clock), <<>>)
    /\ convLog' = IF r.err = "none"
                  THEN PushConv(convLog, [rel |-> rel, at |-> clock, abs |-> r.val.i])
                  ELSE convLog

\* Dispatch.__init__: self.published = fromtimestamp(client.fix_timestamp(published))
ConstructDispatch(rel, okS) ==
    /\ Converted(FixTimestamp(World, rel, Net(TRUE, okS, TRUE, TRUE), clock),
                 rel, "dispatch.new")
    /\ UNCHANGED <<clock, mo, entity, concVars, projVars, evalVars>>

\* Dispatches.get_major_order: the request, MajorOrder.from_json over its tasks, and
\* MajorOrder.__init__ with self.expires = client.fix_timestamp(expires, True).
BuildMajorOrderK(q, rel, net, clk) ==
    IF q.err # "none" THEN q
    ELSE IF \E t \in TaskIds : TaskFromJson(TaskPayload(t)).err # "none"
         THEN Ret(q.w, "decode", None)
    ELSE FixTimestamp(q.w, rel, net, clk)

BuildMajorOrder(w, rel, net, clk) ==
    BuildMajorOrderK(ApiRequest(w, "major_order", net), rel, net, clk)

MajorOrderDone(r, rel) ==
    /\ Converted(r, rel, "major_order.new")
    /\ mo' = (r.err = "none")

GetMajorOrder(rel, okM, okS) ==
    /\ ~mo
    /\ MajorOrderDone(BuildMajorOrder(World, rel, Net(TRUE, okS, TRUE, okM), clock), rel)
    /\ UNCHANGED <<clock, entity, concVars, projVars, evalVars>>

\* Planet.__eq__: isinstance(value, Planet) and self.id + 1 == value.id
PlanetEq(self, value) == value.k = "planet" /\ self.i + 1 = value.i

\* The tasks of the major order upstream holds when it is requested: the
\* tasks ts of the payload, in payload order.
RECURSIVE TasksFrom(_, _)
TasksFrom(t, ts) ==
    IF t > NPlanets THEN <<>>
    ELSE IF t \in ts THEN <<t>> \o TasksFrom(t + 1, ts)
    ELSE TasksFrom(t + 1, ts)

BoolV(b) == [k |-> "bool", i |-> IF b THEN 1 ELSE 0, f |-> 0]

\* i.planet == self: Planet.__eq__ of the task's planet when it is a Planet;
\* for None the reflected self.__eq__(None), which is False.
TaskPlanetEq(planet, self) ==
    IF planet.k = "planet" THEN PlanetEq(planet, self) ELSE FALSE

\* Planet.is_part_of_major_order:
\*     mo = self.client.dispatches.get_major_order()
\*     for i in mo.tasks: if i.planet == self: return True
\*     return False
RECURSIVE PartOfLoop(_, _, _, _, _)
PartOfLoopK(r, tasks, j, self, net) ==
    IF r.err # "none" THEN r
    ELSE IF TaskPlanetEq(r.val, self) THEN Ret(r.w, "none", BoolV(TRUE))
    ELSE PartOfLoop(r.w, tasks, j + 1, self, net)

PartOfLoop(w, tasks, j, self, net) ==
    IF j > Len(tasks) THEN Ret(w, "none", BoolV(FALSE))
    ELSE PartOfLoopK(TaskPlanet(w, tasks[j], net), tasks, j, self, net)

IsPartOfMajorOrderK(m, tasks, self, net) ==
    IF m.err # "none" THEN m ELSE PartOfLoop(m.w, tasks, 1, self, net)

IsPartOfMajorOrder(w, tasks, self, net, clk) ==
    IsPartOfMajorOrderK(BuildMajorOrder(w, 0, net, clk), tasks, self, net)

\* planet.is_part_of_major_order, while upstream's major order has the tasks ts
AccessPartOfMajorOrder(ts, okP, okS, okM) ==
    /\ entity.k = "planet" /\ PlanetExists(entity.i)
    /\ Done(IsPartOfMajorOrder(World, TasksFrom(1, ts), entity, Net(okP, okS, TRUE, okM), clock),
            "planet.is_part_of_major_order", entity, None, TasksFrom(1, ts))
    /\ UNCHANGED <<clock, mo, convLog, entity, concVars, projVars, evalVars>>

(***************************************************************************)
(* The client after construction: nothing fetched, nothing memoized.       *)
(***************************************************************************)
NoGen == [st |-> "uncalled", pos |-> 0]
NoObs ==
    [op |-> "init", inst |-> None, before |-> None, res |-> None, err |-> "none",
     look |-> 0, nreq |-> 0, nfail |-> 0, items |-> <<>>]
IdleCaller == [pc |-> "idle", tmp |-> None, res |-> None, err |-> "none", look |-> 0]
NoTask == [type |-> ERADICATE, values |-> <<>>, valueTypes |-> <<>>]
NoOutcome == [st |-> "idle", err |-> "none", vals |-> EmptyVals]

ClientInit ==
    /\ clock = 0
    /\ planetsGen = NoGen
    /\ campaignsGen = NoGen
    /\ statusMemo = [has |-> FALSE, time |-> 0]
    /\ psPlanet = [s \in PlanetIds |-> IntV(s)]
    /\ pCache = [p \in PlanetIds |-> [planet_info |-> None, status |-> None, campaign |-> None]]
    /\ cPlanet = [c \in CampaignIds |-> IntV(CampaignPlanetIndex(c))]
    /\ wiFetches = 0
    /\ mo = FALSE
    /\ tResolved = [t \in TaskIds |-> None]
    /\ convLog = <<>>
    /\ last = NoObs

ConcIdle ==
    /\ cTarget = None
    /\ thr = [t \in Callers |-> IdleCaller]

ProjIdle ==
    /\ tIn = NoTask
    /\ tOut = NoOutcome

NoCall == [fn |-> "none"]
NoResult == [st |-> "idle"]

EvalIdle ==
    /\ call = NoCall
    /\ result = NoResult

vars ==
    <<clock, planetsGen, campaignsGen, statusMemo, psPlanet, pCache, cPlanet, wiFetches,
      mo, tResolved, convLog, entity, last, cTarget, thr, tIn, tOut, call, result>>

(***************************************************************************)
(* Spec: a caller holding one entity reads its references, in any order    *)
(* and any number of times, while the collections are iterated.            *)
(***************************************************************************)
Entities ==
    {PlanetObj(p) : p \in PlanetIds} \cup {CampaignObj(c) : c \in CampaignIds}
        \cup {StatusObj(s) : s \in PlanetIds} \cup {TaskObj(t) : t \in TaskIds}

Init == ClientInit /\ entity \in Entities /\ ConcIdle /\ ProjIdle /\ EvalIdle

Next ==
    \/ \E ok \in BOOLEAN : NextPlanet(ok)
    \/ \E ok \in BOOLEAN : NextCampaign(ok)
    \/ \E ok \in BOOLEAN : CallGetStatus(ok)
    \/ \E p \in PlanetIds, ok \in BOOLEAN : CallGetPlanetStatus(p, ok)
    \/ \E okM \in BOOLEAN, okS \in BOOLEAN : GetMajorOrder(0, okM, okS)
    \/ \E ok \in BOOLEAN : AccessPlanetInfo(ok)
    \/ \E ok \in BOOLEAN : AccessStatus(ok)
    \/ \E okP \in BOOLEAN, okS \in BOOLEAN : AccessCampaign(okP, okS)
    \/ \E ok \in BOOLEAN : Refresh(ok)
    \/ \E ok \in BOOLEAN : AccessCampaignPlanet(ok)
    \/ \E ok \in BOOLEAN : AccessStatusPlanet(ok)
    \/ \E ok \in BOOLEAN : AccessTaskPlanet(ok)
    \/ \E okP \in BOOLEAN, okS \in BOOLEAN, okW \in BOOLEAN : AccessLiberation(okP, okS, okW)
    \/ \E ts \in SUBSET TaskIds, okP \in BOOLEAN, okS \in BOOLEAN, okM \in BOOLEAN :
           AccessPartOfMajorOrder(ts, okP, okS, okM)

Spec == Init /\ [][Next]_vars

(***************************************************************************)
(* SpecList: the collection endpoints, iterated, listed and searched in    *)
(* any order.                                                              *)
(***************************************************************************)
InitList == ClientInit /\ entity = None /\ ConcIdle /\ ProjIdle /\ EvalIdle

NextList ==
    \/ \E ok \in BOOLEAN : NextPlanet(ok)
    \/ \E ok \in BOOLEAN : ListPlanets(ok)
    \/ \E id \in PlanetIds, ok \in BOOLEAN : CallGetPlanet(id, ok)
    \/ \E ok \in BOOLEAN : NextCampaign(ok)
    \/ \E ok \in BOOLEAN : ListCampaigns(ok)

SpecList == InitList /\ [][NextList]_vars

(***************************************************************************)
(* SpecClock: entities carrying a converted timestamp are constructed      *)
(* while the upstream game clock advances.                                 *)
(***************************************************************************)
Offsets == 0..MaxOffset

InitClock == ClientInit /\ entity = None /\ ConcIdle /\ ProjIdle /\ EvalIdle

NextClock ==
    \/ Tick
    \/ \E ok \in BOOLEAN : CallGetStatus(ok)
    \/ \E rel \in Offsets, ok \in BOOLEAN : ConstructDispatch(rel, ok)
    \/ \E rel \in Offsets, okM \in BOOLEAN, okS \in BOOLEAN : GetMajorOrder(rel, okM, okS)

SpecClock == InitClock /\ [][NextClock]_vars

(***************************************************************************)
(* SpecConc: several callers read the same reference of one instance.  No  *)
(* accessor takes a lock, so a caller can be suspended between the test of *)
(* the slot, the lookup and the store.  A lookup (one call into the API    *)
(* client) is taken as one step.                                           *)
(***************************************************************************)
ConcTargets == {"planet.planet_info", "planet.status", "campaign.planet"}

SlotOf(w, target, e) ==
    IF target = "planet.planet_info" THEN w.pc[e.i].planet_info
    ELSE IF target = "planet.status" THEN w.pc[e.i].status
    ELSE w.cp[e.i]

SlotFilled(target, v) ==
    IF target = "campaign.planet" THEN v.k = "planet" ELSE v # None

Lookup(w, target, e, net, clk) ==
    IF target = "planet.planet_info" THEN GetPlanetInfo(w, e, net)
    ELSE IF target = "planet.status" THEN GetPlanetStatus(w, e, net, clk)
    ELSE GetPlanet(w, w.cp[e.i], net)

Store(w, target, e, v) ==
    IF target = "planet.planet_info" THEN [w EXCEPT !.pc[e.i].planet_info = v]
    ELSE IF target = "planet.status" THEN [w EXCEPT !.pc[e.i].status = v]
    ELSE [w EXCEPT !.cp[e.i] = v]

EntityExists ==
    IF entity.k = "planet" THEN PlanetExists(entity.i) ELSE CampaignExists(entity.i)

\* if self._cache.get(..) is None   /   if not isinstance(self._planet, Planet)
TCheck(t) ==
    /\ EntityExists
    /\ thr[t].pc = "idle"
    /\ thr' = [thr EXCEPT ![t] =
                 IF SlotFilled(cTarget, SlotOf(World, cTarget, entity))
                 THEN [@ EXCEPT !.pc = "done", !.res = SlotOf(World, cTarget, entity)]
                 ELSE [@ EXCEPT !.pc = "lookup"]]
    /\ UNCHANGED <<clock, planetsGen, campaignsGen, statusMemo, psPlanet, pCache, cPlanet,
                   wiFetches, mo, tResolved, convLog, entity, last, cTarget, projVars, evalVars>>

\* the right-hand side of the assignment: the call into the API client
Fetched(r, t) ==
    /\ Commit(r.w)
    /\ thr' = [thr EXCEPT ![t] =
                 IF r.err # "none"
                 THEN [@ EXCEPT !.pc = "done", !.err = r.err, !.look = 1]
                 ELSE [@ EXCEPT !.pc = "store", !.tmp = r.val, !.look = 1]]

TFetch(t, ok) ==
    /\ thr[t].pc = "lookup"
    /\ Fetched(Lookup(World, cTarget, entity, Net(ok, ok, ok, ok), clock), t)
    /\ UNCHANGED <<clock, mo, convLog, entity, last, cTarget, projVars, evalVars>>

\* the assignment to the slot, and "return self._cache[..]" / "return self._planet"
TStore(t) ==
    /\ thr[t].pc = "store"
    /\ Commit(Store(World, cTarget, entity, thr[t].tmp))
    /\ thr' = [thr EXCEPT ![t] = [@ EXCEPT !.pc = "done", !.res = thr[t].tmp]]
    /\ UNCHANGED <<clock, mo, convLog, entity, last, cTarget, projVars, evalVars>>

InitConc ==
    /\ ClientInit
    /\ ProjIdle
    /\ EvalIdle
    /\ cTarget \in ConcTargets
    /\ entity \in IF cTarget = "campaign.planet"
                  THEN {CampaignObj(c) : c \in CampaignIds}
                  ELSE {PlanetObj(p) : p \in PlanetIds}
    /\ thr = [t \in Callers |-> IdleCaller]

NextConc ==
    \/ \E ok \in BOOLEAN : NextPlanet(ok)
    \/ \E ok \in BOOLEAN : NextCampaign(ok)
    \/ \E t \in Callers : TCheck(t)
    \/ \E t \in Callers, ok \in BOOLEAN : TFetch(t, ok)
    \/ \E t \in Callers : TStore(t)

SpecConc == InitConc /\ [][NextConc]_vars

(***************************************************************************)
(* SpecProj: MajorOrder.from_json decodes one task of a payload.           *)
(***************************************************************************)
RECURSIVE SeqsUpTo(_, _)
SeqsUpTo(S, n) ==
    IF n = 0 THEN {<<>>}
    ELSE SeqsUpTo(S, n - 1) \cup {Append(s, x) : s \in SeqsUpTo(S, n - 1), x \in S}

TaskValues == {7, 9}
TaskTags == {RACE, PLANET_INDEX, 99}
TaskTypes == {ERADICATE, LIBERATION, 99}

Project ==
    /\ tOut.st = "idle"
    /\ tOut' = [st |-> "done", err |-> TaskFromJson(tIn).err, vals |-> TaskFromJson(tIn).vals]
    /\ UNCHANGED <<clock, planetsGen, campaignsGen, statusMemo, psPlanet, pCache, cPlanet,
                   wiFetches, mo, tResolved, convLog, entity, last, concVars, tIn, evalVars>>

InitProj ==
    /\ ClientInit
    /\ EvalIdle
    /\ entity = None
    /\ ConcIdle
    /\ tIn \in [type : TaskTypes, values : SeqsUpTo(TaskValues, MaxLen),
                valueTypes : SeqsUpTo(TaskTags, MaxLen)]
    /\ tOut = NoOutcome

NextProj == Project

SpecProj == InitProj /\ [][NextProj]_vars

(***************************************************************************)
(* Properties.                                                             *)
(***************************************************************************)
RefOps ==
    {"planet.planet_info", "planet.status", "planet.campaign", "campaign.planet",
     "planet_status.planet", "task.planet"}
SlotOps == RefOps \ {"task.planet"}

\* C1: once an access has resolved a deferred reference of an instance (planet_info,
\* status, campaign of a Planet, planet of a Campaign, a PlanetStatus or a
\* MajorOrderTask), every later access on that instance returns that same object
\* and makes no lookup through the API client.  (Spec)
C1_MemoizedAfterFirstAccess ==
    (last.op \in RefOps /\ IsObject(last.before))
        => (last.err = "none" /\ last.res = last.before /\ last.look = 0)

\* C2: a refresh() that returns leaves every memoized slot of the entity empty, so
\* that the next access looks the reference up again; and no step other than
\* refresh() empties a populated slot.  (Spec)
C2_RefreshDiscardsSlots ==
    [][/\ (last'.op = "planet.refresh" /\ last'.err = "none")
           => pCache'[entity.i] = [planet_info |-> None, status |-> None, campaign |-> None]
       /\ (last'.op # "planet.refresh")
           => \A p \in PlanetIds :
                 /\ pCache[p].planet_info # None => pCache'[p].planet_info # None
                 /\ pCache[p].status # None => pCache'[p].status # None
                 /\ pCache[p].campaign # None => pCache'[p].campaign # None]_vars

\* C3: when the callers have all returned from reading the same reference of one
\* instance, unresolved when they began, exactly one of them made the lookup and
\* all of them received the identical object.  (SpecConc)
C3_SingleFlight ==
    (\A t \in Callers : thr[t].pc = "done" /\ thr[t].err = "none")
        => /\ Cardinality({t \in Callers : thr[t].look = 1}) = 1
           /\ \A t, u \in Callers : thr[t].res = thr[u].res

\* C4: an access whose fetch failed raised the error and left the slot empty, and
\* the access that follows it fetches again and, when that fetch succeeds,
\* returns the resolved entity.  (Spec)
C4_FailedFetchRetries ==
    [][(last.op \in SlotOps /\ last.err = "conn" /\ last'.op = last.op)
           => /\ last.before = None \/ last.before.k = "int"
              /\ last'.nreq > 0
              /\ last'.nfail = 0 => (last'.err = "none" /\ IsObject(last'.res))]_vars

\* C5: two successive conversions of the same relative offset, made with the
\* upstream game clock advanced by D between them, give absolute timestamps that
\* differ by exactly D.  (SpecClock)
C5_NoClockDrift ==
    (Len(convLog) = 2 /\ convLog[1].rel = convLog[2].rel)
        => convLog[2].abs - convLog[1].abs = convLog[2].at - convLog[1].at

\* C6: a construction of a Dispatch or MajorOrder during whose timestamp conversion
\* the status request failed raises that error; it returns no timestamp and no
\* Status is memoized by it.  (SpecClock)
StatusFetchFailed ==
    \/ last.op = "dispatch.new" /\ last.nfail > 0
    \/ last.op = "major_order.new" /\ last.nreq = 2 /\ last.nfail = 1

C7_Restartable ==
    /\ (last.op = "planets.list" /\ last.err = "none")
           => last.items = [j \in 1..NPlanets |-> j - 1]
    /\ (last.op = "campaigns.list" /\ last.err = "none")
           => last.items = [j \in 1..NCampaigns |-> j]
    /\ (last.op = "get_planet" /\ last.err = "none")
           => last.res = PlanetObj(last.inst.i)

\* C8: for a planet p that get_planets() has already yielded, get_planet(p.id)
\* returns a planet that compares equal to p.  (SpecList)
C8_LookupEqualsListed ==
    (last.op = "get_planet" /\ last.err = "none" /\ last.inst.i < last.before.i)
        => PlanetEq(PlanetObj(last.inst.i), last.res)

\* C9: in a decoded task, when exactly one (value, type) pair carries the
\* PLANET_INDEX tag the planet entry is that value as a scalar, and when two or
\* more pairs carry it the entry is the list of their values in payload order.
\* (SpecProj)
PlanetPositions(task) ==
    {j \in (DOMAIN task.values) \cap (DOMAIN task.valueTypes) :
        task.valueTypes[j] = PLANET_INDEX}
Nth(S, n) == CHOOSE j \in S : Cardinality({i \in S : i <= j}) = n

C10_LengthMismatchRejected ==
    (tOut.st = "done" /\ Len(tIn.values) # Len(tIn.valueTypes)) => tOut.err # "none"

\* C11: a valueTypes code outside {1, 2, 3, 11, 12} never makes decoding fail (a
\* decoding fails only for a values array longer than valueTypes, a task without
\* PLANET_INDEX value, or an unknown task type); its value is stored under
\* UNKNOWN, and the RACE and PLANET_INDEX values of the task are decoded as in a
\* task without it.  (SpecProj)
UnknownPositions(task) ==
    {j \in (DOMAIN task.values) \cap (DOMAIN task.valueTypes) :
        task.valueTypes[j] \notin ValueTypeCodes \/ task.valueTypes[j] = UNKNOWN}
RacePositions(task) ==
    {j \in (DOMAIN task.values) \cap (DOMAIN task.valueTypes) : task.valueTypes[j] = RACE}
LastOf(S) == CHOOSE j \in S : \A i \in S : i <= j

MaxTasks == 2      \* tasks of a major order
MaxGoal == 2       \* goals and progress entries run up to MaxGoal

NoGoal == [has |-> FALSE, v |-> 0]
Goal(g) == [has |-> TRUE, v |-> g]

Answer(err, val) == [st |-> "done", err |-> err, val |-> val]

\* A progress rule that takes any positive entry as complete.
IsCompleteAtLeast(tasks, progress, i) ==
    IF i > Len(progress) THEN Answer("index", FALSE)
    ELSE IF tasks[i].type \in {CONTROL, DEFENSE, LIBERATION}
         THEN Answer("none", progress[i] >= 1)
    ELSE IF tasks[i].type = ERADICATE
         THEN Answer("none", tasks[i].goal.has /\ progress[i] = tasks[i].goal.v)
    ELSE Answer("none", FALSE)

\* A progress rule that compares every task's entry with 1, whatever its type.
IsCompleteAlwaysOne(tasks, progress, i) ==
    IF i > Len(progress) THEN Answer("index", FALSE)
    ELSE Answer("none", progress[i] = 1)

\* An index lookup that compares tasks by their type and values.
TaskIndexByValue(tasks, i) ==
    CHOOSE j \in 1..i : tasks[j] = tasks[i] /\ \A k \in 1..(j - 1) : tasks[k] # tasks[i]

\* self.tasks.index(task) for the task object at position i: list.index takes
\* the first element that is the object or equals it, and MajorOrderTask
\* defines no __eq__, so no earlier element matches.
TaskIndex(tasks, i) == i

\* MajorOrderProgress.is_complete(task), task at position i (1-based here)
IsComplete(tasks, progress, i) ==
    IF tasks[i].type \in {CONTROL, DEFENSE, LIBERATION}
    THEN IF TaskIndex(tasks, i) > Len(progress) THEN Answer("index", FALSE)
         ELSE Answer("none", progress[TaskIndex(tasks, i)] = 1)
    ELSE IF tasks[i].type = ERADICATE
         THEN IF TaskIndex(tasks, i) > Len(progress) THEN Answer("index", FALSE)
              ELSE Answer("none", tasks[i].goal.has
                                    /\ progress[TaskIndex(tasks, i)] = tasks[i].goal.v)
    ELSE Answer("none", FALSE)

\* MajorOrderProgress.get_progress(task), task at position i
GetProgress(tasks, progress, i) ==
    IF TaskIndex(tasks, i) > Len(progress) THEN Answer("index", 0)
    ELSE Answer("none", progress[TaskIndex(tasks, i)])

\* MajorOrderProgress.completed: all(i.completed for i in self.tasks), where
\* MajorOrderTask.completed is major_order.progress.is_complete(self)
RECURSIVE AllCompleted(_, _, _)
AllCompletedK(c, tasks, progress, i) ==
    IF c.err # "none" THEN c
    ELSE IF ~c.val THEN Answer("none", FALSE)
    ELSE AllCompleted(tasks, progress, i + 1)

AllCompleted(tasks, progress, i) ==
    IF i > Len(tasks) THEN Answer("none", TRUE)
    ELSE AllCompletedK(IsComplete(tasks, progress, i), tasks, progress, i)

Completed(tasks, progress) == AllCompleted(tasks, progress, 1)

\* Assignment.is_complete: self.progress == [1] * len(self.tasks)
AssignmentIsComplete(tasks, progress) ==
    Answer("none", progress = [j \in 1..Len(tasks) |-> 1])

TaskShapes ==
    [type : {LIBERATION, DEFENSE, CONTROL}, goal : {NoGoal}]
        \cup [type : {ERADICATE}, goal : {Goal(g) : g \in 1..MaxGoal}]

\* Orders of one to n tasks, with a progress list of the same length or one
\* entry short.
Orders(n) ==
    {[tasks |-> ts, progress |-> ps] :
        <<ts, ps>> \in {x \in (SeqsUpTo(TaskShapes, n) \ {<<>>})
                                \X SeqsUpTo(0..MaxGoal, n) :
                            Len(x[2]) \in {Len(x[1]) - 1, Len(x[1])}}}

(***************************************************************************)
(* Decoding of enum codes where entities are built from a payload.         *)
(***************************************************************************)
FactionCodes == 0..4
CampaignTypeCodes == 0..2
RewardTypeCodes == {1}

Some(v) == [some |-> TRUE, v |-> v]
Nothing == [some |-> FALSE, v |-> 0]

\* BetterEnum.parse: try: return cls(value) / except ValueError: return None
EnumParse(codes, value) ==
    IF value \in codes THEN Answer("none", Some(value)) ELSE Answer("none", Nothing)

\* cls(value): the member, or ValueError
EnumCall(codes, value) ==
    IF value \in codes THEN Answer("none", Some(value)) ELSE Answer("value", Nothing)

DecodeSites == {"faction", "campaign_type", "value_tag", "reward_type", "task_type"}

EnumCodes(site) ==
    IF site = "faction" THEN FactionCodes
    ELSE IF site = "campaign_type" THEN CampaignTypeCodes
    ELSE IF site = "value_tag" THEN ValueTypeCodes
    ELSE IF site = "reward_type" THEN RewardTypeCodes
    ELSE MajorOrderTypeCodes

\* PlanetStatus.from_json (Faction.parse), Campaign.from_json (CampaignTypes.parse),
\* MajorOrder.from_json (ValueTypes, UNKNOWN on ValueError),
\* MajorOrderReward.__init__ (RewardTypes(type)), MajorOrderTask.__init__
\* (MajorOrderTypes(type))
Decode(site, code) ==
    IF site \in {"faction", "campaign_type"} THEN EnumParse(EnumCodes(site), code)
    ELSE IF site = "value_tag" THEN Answer("none", Some(ValueTypeOf(code)))
    ELSE EnumCall(EnumCodes(site), code)

DecodeCalls == [fn : {"decode"}, site : DecodeSites, code : 0..(CONTROL + 1)]

(***************************************************************************)
(* ApiBase._api_request, from the response on: what the caller gets for a  *)
(* status code and a body.  A body is absent (not JSON), or JSON with or   *)
(* without an "errors" entry.                                              *)
(***************************************************************************)
Bodies ==
    {[json |-> FALSE, errors |-> "None"], [json |-> TRUE, errors |-> "None"],
     [json |-> TRUE, errors |-> "detail"]}
StatusCodes == {200, 400, 401, 403, 404, 422, 500}

\* response_json = response.json(), {} on ValueError;
\* 400, 422: raise DiveHarderApiError("... %s" % response_json.get("errors"));
\* otherwise response.raise_for_status(), then the JSON is returned
HandleResponse(status, body) ==
    IF status \in {400, 422} THEN Answer("api_error", body.errors)
    ELSE IF status >= 400 THEN Answer("http_error", "None")
    ELSE Answer("none", "payload")

ResponseCalls == [fn : {"response"}, status : StatusCodes, body : Bodies]

(***************************************************************************)
(* Markup conversion.  A text is a sequence of characters; the texts       *)
(* checked are concatenations of up to MaxText pieces, each a plain        *)
(* character, an angle bracket or a whole tag.                             *)
(***************************************************************************)
MaxText == 3       \* pieces a text is concatenated from

TagOpen(n) == <<"<", "i", "=", n, ">">>
TagClose == <<"<", "/", "i", ">">>
TagCloseN(n) == <<"<", "/", "i", "=", n, ">">>
Pieces == {<<"a">>, <<"<">>, <<">">>, TagOpen("3"), TagOpen("1"), TagClose, TagCloseN("3")}

RECURSIVE Flatten(_)
Flatten(ps) == IF ps = <<>> THEN <<>> ELSE Head(ps) \o Flatten(Tail(ps))

Digits == {"0", "1", "2", "3", "4", "5", "6", "7", "8", "9"}

StartsWith(s, p, pre) ==
    p + Len(pre) - 1 <= Len(s) /\ SubSeq(s, p, p + Len(pre) - 1) = pre

CharAt(s, p, c) == p <= Len(s) /\ s[p] = c

\* the least member of a set of positions, 0 when there is none
First(S) == IF S = {} THEN 0 ELSE CHOOSE q \in S : \A u \in S : q <= u

\* \d+ from position p: the position of its last digit, p - 1 when there is none
DigitsEnd(s, p) ==
    CHOOSE q \in (p - 1)..Len(s) :
        /\ \A k \in p..q : s[k] \in Digits
        /\ ~(q + 1 <= Len(s) /\ s[q + 1] \in Digits)

\* HDMLString.as_plaintext: re.sub(r"<.*?>", "", self.text)
RECURSIVE PlainFrom(_, _)
PlainFromK(s, p, q) ==
    IF q # 0 THEN PlainFrom(s, q + 1) ELSE <<s[p]>> \o PlainFrom(s, p + 1)

PlainFrom(s, p) ==
    IF p > Len(s) THEN <<>>
    ELSE IF s[p] = "<" THEN PlainFromK(s, p, First({q \in (p + 1)..Len(s) : s[q] = ">"}))
    ELSE <<s[p]>> \o PlainFrom(s, p + 1)

AsPlaintext(text) == PlainFrom(text, 1)

\* <i=(\d+)> at position p: the position of its ">", 0 when it does not match
OpenEndK(s, p, d) == IF d >= p + 3 /\ CharAt(s, d + 1, ">") THEN d + 1 ELSE 0
OpenEnd(s, p) ==
    IF StartsWith(s, p, <<"<", "i", "=">>) THEN OpenEndK(s, p, DigitsEnd(s, p + 3)) ELSE 0

\* <\/i(?:=\1)?> at position q for the digits n: the position of its ">", or 0
CloseEnd(s, q, n) ==
    IF ~StartsWith(s, q, <<"<", "/", "i">>) THEN 0
    ELSE IF StartsWith(s, q + 3, <<"=">> \o n \o <<">">>) THEN q + 4 + Len(n)
    ELSE IF CharAt(s, q + 3, ">") THEN q + 3
    ELSE 0

\* re.findall(r"<i=(\d+)>(.*?)<\/i(?:=\1)?>", text): the (digits, content) pairs
RECURSIVE FindAll(_, _)
FindAllC(s, p, o, n, q) ==
    IF q = 0 THEN FindAll(s, p + 1)
    ELSE <<[n |-> n, c |-> SubSeq(s, o + 1, q - 1)]>> \o FindAll(s, CloseEnd(s, q, n) + 1)

FindAllN(s, p, o, n) ==
    FindAllC(s, p, o, n, First({q \in (o + 1)..Len(s) : CloseEnd(s, q, n) # 0}))

FindAllO(s, p, o) ==
    IF o = 0 THEN FindAll(s, p + 1) ELSE FindAllN(s, p, o, SubSeq(s, p + 3, o - 1))

FindAll(s, p) == IF p > Len(s) THEN <<>> ELSE FindAllO(s, p, OpenEnd(s, p))

\* str.replace(old, new) for an empty old: new before every character and at
\* the end
ReplaceEmpty(s, new) ==
    [k \in 1..((Len(s) + 1) * Len(new) + Len(s)) |->
        IF (k - 1) % (Len(new) + 1) < Len(new)
        THEN new[((k - 1) % (Len(new) + 1)) + 1]
        ELSE s[((k - 1) \div (Len(new) + 1)) + 1]]

\* str.replace(old, new): every non-overlapping occurrence, left to right, from
\* position p on; q is the next occurrence, 0 when there is none
RECURSIVE Replace(_, _, _, _)
ReplaceK(s, p, old, new, q) ==
    IF q = 0 THEN SubSeq(s, p, Len(s))
    ELSE SubSeq(s, p, q - 1) \o new \o Replace(s, q + Len(old), old, new)

Replace(s, p, old, new) ==
    IF old = <<>> THEN ReplaceEmpty(s, new)
    ELSE ReplaceK(s, p, old, new, First({q \in p..Len(s) : StartsWith(s, q, old)}))

Bold(c) == <<"[", "b", "]">> \o c \o <<"[", "/", "b", "]">>
Yellow(c) ==
    <<"[", "y", "e", "l", "l", "o", "w", "]">> \o c
        \o <<"[", "/", "y", "e", "l", "l", "o", "w", "]">>

\* for match in matches: modified_text = modified_text.replace(match[1], ...)
RECURSIVE ReplaceMatches(_, _, _)
ReplaceMatches(s, ms, j) ==
    IF j > Len(ms) THEN s
    ELSE IF ms[j].n = <<"3">> THEN ReplaceMatches(Replace(s, 1, ms[j].c, Bold(ms[j].c)), ms, j + 1)
    ELSE IF ms[j].n = <<"1">> THEN ReplaceMatches(Replace(s, 1, ms[j].c, Yellow(ms[j].c)), ms, j + 1)
    ELSE ReplaceMatches(s, ms, j + 1)

\* <\/?i(?:=\d+)?> at position p: the position of its ">", 0 when it does not match
TagEndD(s, c, d) == IF d >= c + 1 /\ CharAt(s, d + 1, ">") THEN d + 1 ELSE 0
TagEndI(s, b) ==
    IF ~CharAt(s, b, "i") THEN 0
    ELSE IF CharAt(s, b + 1, "=") THEN TagEndD(s, b + 1, DigitsEnd(s, b + 2))
    ELSE IF CharAt(s, b + 1, ">") THEN b + 1
    ELSE 0
TagEnd(s, p) ==
    IF ~CharAt(s, p, "<") THEN 0
    ELSE IF CharAt(s, p + 1, "/") THEN TagEndI(s, p + 2)
    ELSE TagEndI(s, p + 1)

\* re.sub(r"<\/?i(?:=\d+)?>", "", modified_text), from position p on; q is
\* where the next tag starts, 0 when there is none
RECURSIVE StripTags(_, _)
StripTagsK(s, p, q) ==
    IF q = 0 THEN SubSeq(s, p, Len(s))
    ELSE SubSeq(s, p, q - 1) \o StripTags(s, TagEnd(s, q) + 1)

StripTags(s, p) == StripTagsK(s, p, First({q \in p..Len(s) : TagEnd(s, q) # 0}))

\* utils.hdml_to_md
HdmlToMd(text) == StripTags(ReplaceMatches(text, FindAll(text, 1), 1), 1)

Markup(text) == Answer("none", [md |-> HdmlToMd(text), plain |-> AsPlaintext(text)])

(***************************************************************************)
(* SpecEval: one call of a function that reads no client state, on         *)
(* arguments drawn from the sets above.                                    *)
(***************************************************************************)
EqCalls == [fn : {"planet.eq"}, a : 0..NPlanets, b : 0..NPlanets]

Apply(c) ==
    IF c.fn = "is_complete" THEN IsComplete(c.order.tasks, c.order.progress, c.i)
    ELSE IF c.fn = "get_progress" THEN GetProgress(c.order.tasks, c.order.progress, c.i)
    ELSE IF c.fn = "completed" THEN Completed(c.order.tasks, c.order.progress)
    ELSE IF c.fn = "assignment.is_complete"
         THEN AssignmentIsComplete(c.order.tasks, c.order.progress)
    ELSE IF c.fn = "decode" THEN Decode(c.site, c.code)
    ELSE IF c.fn = "response" THEN HandleResponse(c.status, c.body)
    ELSE IF c.fn = "markup" THEN Markup(c.text)
    ELSE Answer("none", PlanetEq(PlanetObj(c.a), PlanetObj(c.b)))

Evaluate ==
    /\ result.st = "idle"
    /\ result' = Apply(call)
    /\ UNCHANGED <<clock, planetsGen, campaignsGen, statusMemo, psPlanet, pCache, cPlanet,
                   wiFetches, mo, tResolved, convLog, entity, last, concVars, projVars, call>>

InitEval ==
    /\ ClientInit
    /\ entity = None
    /\ ConcIdle
    /\ ProjIdle
    /\ \/ \E o \in Orders(MaxTasks), i \in 1..MaxTasks :
              /\ i <= Len(o.tasks)
              /\ \E f \in {"is_complete", "get_progress"} :
                     call = [fn |-> f, order |-> o, i |-> i]
       \/ \E o \in Orders(MaxTasks), f \in {"completed", "assignment.is_complete"} :
              call = [fn |-> f, order |-> o, i |-> 0]
       \/ call \in DecodeCalls \cup ResponseCalls \cup EqCalls
       \/ \E ps \in SeqsUpTo(Pieces, MaxText) : call = [fn |-> "markup", text |-> Flatten(ps)]
    /\ result = NoResult

NextEval == Evaluate

SpecEval == InitEval /\ [][NextEval]_vars

\* C12: a task of type Eradicate at position i is complete exactly when
\* progress[i] equals its goal.  (SpecEval)
C12_EradicateComplete ==
    (/\ call.fn = "is_complete" /\ result.st = "done"
     /\ call.order.tasks[call.i].type = ERADICATE
     /\ call.i <= Len(call.order.progress))
        => /\ result.err = "none"
           /\ result.val <=> (call.order.progress[call.i] = call.order.tasks[call.i].goal.v)

C12_Witness ==
    /\ call.fn = "is_complete" /\ result.st = "done"
    /\ call.order.tasks[call.i] = [type |-> ERADICATE, goal |-> Goal(MaxGoal)]
    /\ call.i = 2 /\ call.i <= Len(call.order.progress)
    /\ call.order.progress[call.i] = MaxGoal
    /\ result = Answer("none", TRUE)

\* C13: a task of type Liberation, Defense or Control at position i is complete
\* exactly when progress[i] is 1; 0 and every value above 1 are incomplete.
\* (SpecEval)
C13_FlagComplete ==
    (/\ call.fn = "is_complete" /\ result.st = "done"
     /\ call.order.tasks[call.i].type \in {LIBERATION, DEFENSE, CONTROL}
     /\ call.i <= Len(call.order.progress))
        => /\ result.err = "none"
           /\ result.val <=> (call.order.progress[call.i] = 1)

C13_Witness ==
    /\ call.fn = "is_complete" /\ result.st = "done"
    /\ call.order.tasks[call.i].type = DEFENSE
    /\ call.i <= Len(call.order.progress)
    /\ call.order.progress[call.i] = MaxGoal
    /\ result = Answer("none", FALSE)

\* C14: an assignment is complete exactly when every task is complete under the
\* rule of its own type, for MajorOrderProgress.completed and for
\* Assignment.is_complete alike.  (SpecEval)
TaskRule(task, p) == IF task.type = ERADICATE THEN p = task.goal.v ELSE p = 1

C14_AllTasksComplete ==
    (/\ call.fn \in {"completed", "assignment.is_complete"} /\ result.st = "done"
     /\ Len(call.order.progress) = Len(call.order.tasks))
        => /\ result.err = "none"
           /\ result.val <=> \A i \in DOMAIN call.order.tasks :
                                 TaskRule(call.order.tasks[i], call.order.progress[i])

\* C15: decoding a code outside an enum's set does not raise and gives the
\* unknown/none variant, for faction, campaign type, value tag and reward type;
\* an unrecognized task type code fails with a decoding error.  (SpecEval)
UnknownVariant(site) == IF site = "value_tag" THEN Some(UNKNOWN) ELSE Nothing

C15_UnknownEnumSafe ==
    (/\ call.fn = "decode" /\ result.st = "done"
     /\ call.code \notin EnumCodes(call.site))
        => IF call.site = "task_type"
           THEN result.err = "value"
           ELSE result = Answer("none", UnknownVariant(call.site))

\* C18: a response with a 4xx status and a structured error body is reported
\* as an upstream application error carrying the body's error detail.
\* (SpecEval)
C18_ClientErrorsReported ==
    (/\ call.fn = "response" /\ result.st = "done"
     /\ call.status \in 400..499
     /\ call.body.json /\ call.body.errors # "None")
        => result = Answer("api_error", call.body.errors)

\* C20: two Planet instances compare equal exactly when they carry the same
\* index.  (SpecEval)
C20_EqualityByIndex ==
    (call.fn = "planet.eq" /\ result.st = "done")
        => (result.val <=> (call.a = call.b))

NDispatches == 2    \* dispatches of the news feed payload, ids 1..
NAssignments == 2   \* assignments of the assignments payload, ids 1..

DispatchIds == 1..NDispatches
AssignmentIds == 1..NAssignments

DispatchObj(d) == [k |-> "dispatch", i |-> d, f |-> 0]
StatsObj(p) == [k |-> "pstats", i |-> p, f |-> 0]
ModelObj(kind, id) == [k |-> kind, i |-> id, f |-> 0]
Payload == [k |-> "payload", i |-> 0, f |-> 0]
ErrorBody == [k |-> "errorbody", i |-> 0, f |-> 0]

NetGet(ok, okS) ==
    [planets |-> TRUE, status |-> okS, war_info |-> TRUE, major_order |-> TRUE,
     news_feed |-> ok, planet_stats |-> ok, assignments |-> ok, campaigns |-> ok]

\* Dispatches.get_dispatches, one element: Dispatch.from_json is cls(client, **json),
\* a TypeError when the element lacks a key, and Dispatch.__init__ converts
\* published through client.fix_timestamp.
DispatchFromJson(w, d, bad, net, clk) ==
    IF d = bad THEN Ret(w, "decode", None) ELSE FixTimestamp(w, 0, net, clk)

\* Dispatches.get_dispatch: for dispatch in self.get_dispatches():
\*     if dispatch["id"] == id: return dispatch
RECURSIVE GetDispatchLoop(_, _, _, _, _, _)
GetDispatchLoopK(r, d, id, bad, net, clk) ==
    IF r.err # "none" THEN Ret(r.w, r.err, None)
    ELSE IF d = id THEN Ret(r.w, "none", DispatchObj(d))
    ELSE GetDispatchLoop(r.w, d + 1, id, bad, net, clk)

GetDispatchLoop(w, d, id, bad, net, clk) ==
    IF d > NDispatches THEN Ret(w, "none", None)
    ELSE GetDispatchLoopK(DispatchFromJson(w, d, bad, net, clk), d, id, bad, net, clk)

GetDispatchK(r, id, bad, net, clk) ==
    IF r.err # "none" THEN r ELSE GetDispatchLoop(r.w, 1, id, bad, net, clk)

GetDispatch(w, id, bad, net, clk) ==
    GetDispatchK(ApiRequest(w, "news_feed", net), id, bad, net, clk)

\* list(self.get_dispatches()): the list exists only if every element decoded
RECURSIVE DrainDispatches(_, _, _, _, _, _)
DrainDispatchesK(r, d, bad, net, clk, acc) ==
    IF r.err # "none" THEN [r |-> Ret(r.w, r.err, None), items |-> <<>>]
    ELSE DrainDispatches(r.w, d + 1, bad, net, clk, Append(acc, d))

DrainDispatches(w, d, bad, net, clk, acc) ==
    IF d > NDispatches THEN [r |-> Ret(w, "none", None), items |-> acc]
    ELSE DrainDispatchesK(DispatchFromJson(w, d, bad, net, clk), d, bad, net, clk, acc)

\* dispatches[-count:]  (for count = 0 the slice is [-0:], the whole list)
LastItems(items, count) ==
    IF count = 0 \/ count >= Len(items) THEN items
    ELSE SubSeq(items, Len(items) - count + 1, Len(items))

\* Dispatches.get_latest_dispatches
LatestDispatchesD(d, count) == [r |-> d.r, items |-> LastItems(d.items, count)]

LatestDispatchesK(r, count, bad, net, clk) ==
    IF r.err # "none" THEN [r |-> r, items |-> <<>>]
    ELSE LatestDispatchesD(DrainDispatches(r.w, 1, bad, net, clk, <<>>), count)

LatestDispatches(w, count, bad, net, clk) ==
    LatestDispatchesK(ApiRequest(w, "news_feed", net), count, bad, net, clk)

\* Statistics.get_planet_statistics: for i in statistics:
\*     if i["planetIndex"] == planet_id: return PlanetStatistics.from_json(...)
\* return None
GetPlanetStatisticsK(r, id) ==
    IF r.err # "none" THEN r
    ELSE IF id \in PlanetIds THEN Ret(r.w, "none", StatsObj(id))
    ELSE Ret(r.w, "none", None)

GetPlanetStatistics(w, id, net) == GetPlanetStatisticsK(ApiRequest(w, "planet_stats", net), id)

\* BaseApiModule.get for one entity: the payload when upstream has the id;
\* when it has not, one of: an error raised, nothing, or an error body.
Misses == {"raise", "nothing", "body"}

ApiGetK(r, found, miss) ==
    IF r.err # "none" THEN r
    ELSE IF found THEN Ret(r.w, "none", Payload)
    ELSE IF miss = "raise" THEN Ret(r.w, "http", None)
    ELSE IF miss = "nothing" THEN Ret(r.w, "none", None)
    ELSE Ret(r.w, "none", ErrorBody)

ApiGet(w, endpoint, found, miss, net) == ApiGetK(ApiRequest(w, endpoint, net), found, miss)

\* AssignmentsModule.get_assignment, CampaignModule.get_campaign:
\* data = self.get(...); return models.X(**data)
GetModelK(r, kind, id) ==
    IF r.err # "none" THEN r
    ELSE IF r.val = None THEN Ret(r.w, "type", None)
    ELSE IF r.val = ErrorBody THEN Ret(r.w, "validation", None)
    ELSE Ret(r.w, "none", ModelObj(kind, id))

GetAssignment(w, id, miss, net) ==
    GetModelK(ApiGet(w, "assignments", id \in AssignmentIds, miss, net), "assignment", id)

GetCampaign(w, id, miss, net) ==
    GetModelK(ApiGet(w, "campaigns", id \in CampaignIds, miss, net), "campaign_model", id)

\* AssignmentsModule.get_all_assignments:
\* return [models.Assignment(**assignment) for assignment in data]
GetAllAssignmentsK(r, bad) ==
    IF r.err # "none" THEN [r |-> r, items |-> <<>>]
    ELSE IF bad \in AssignmentIds THEN [r |-> Ret(r.w, "validation", None), items |-> <<>>]
    ELSE [r |-> Ret(r.w, "none", None), items |-> [j \in AssignmentIds |-> j]]

GetAllAssignments(w, bad, net) == GetAllAssignmentsK(ApiGet(w, "assignments", TRUE, "raise", net), bad)

getFrame == <<clock, mo, convLog, entity, concVars, projVars, evalVars>>

\* client.dispatches.get_dispatch(id)
CallGetDispatch(id, bad, ok, okS) ==
    /\ Done(GetDispatch(World, id, bad, NetGet(ok, okS), clock),
            "get_dispatch", IntV(id), IntV(bad), <<>>)
    /\ UNCHANGED getFrame

LatestDone(d, count, bad) == Done(d.r, "latest_dispatches", IntV(count), IntV(bad), d.items)

\* client.dispatches.get_latest_dispatches(count)
CallGetLatestDispatches(count, bad, ok, okS) ==
    /\ LatestDone(LatestDispatches(World, count, bad, NetGet(ok, okS), clock), count, bad)
    /\ UNCHANGED getFrame

\* client.statistics.get_planet_statistics(planet_id)
CallGetPlanetStatistics(id, ok) ==
    /\ Done(GetPlanetStatistics(World, id, NetGet(ok, TRUE)),
            "planet_statistics", IntV(id), IntV(0), <<>>)
    /\ UNCHANGED getFrame

\* client.campaigns.get_campaign_by_planet(planet)
CallGetCampaignByPlanet(p, okP, okS) ==
    /\ Done(GetCampaignByPlanet(World, PlanetObj(p), Net(okP, okS, TRUE, TRUE)),
            "campaign_by_planet", IntV(p), IntV(0), <<>>)
    /\ UNCHANGED getFrame

\* api_client.assignments.get_assignment(assignment_id)
CallGetAssignment(id, miss, ok) ==
    /\ Done(GetAssignment(World, id, miss, NetGet(ok, TRUE)),
            "get_assignment", IntV(id), IntV(0), <<>>)
    /\ UNCHANGED getFrame

\* api_client.campaigns.get_campaign(campaign_id)
CallGetCampaign(id, miss, ok) ==
    /\ Done(GetCampaign(World, id, miss, NetGet(ok, TRUE)),
            "get_campaign", IntV(id), IntV(0), <<>>)
    /\ UNCHANGED getFrame

\* api_client.assignments.get_all_assignments()
CallGetAllAssignments(bad, ok) ==
    /\ ListDone(GetAllAssignments(World, bad, NetGet(ok, TRUE)),
                "all_assignments", IntV(bad))
    /\ UNCHANGED getFrame

\* A Dispatch object is the one built for element d of the payload of the n-th
\* request of the running operation.  Dispatch defines no __eq__: two Dispatch
\* objects compare equal only when they are the same object.
DispatchOf(d, n) == [k |-> "dispatch", i |-> d, f |-> n]
DispatchEq(self, value) == self = value

\* list(self.get_dispatches())
ListDispatchesK(r, net, clk) ==
    IF r.err # "none" THEN [r |-> r, items |-> <<>>]
    ELSE DrainDispatches(r.w, 1, 0, net, clk, <<>>)

ListDispatches(w, net, clk) == ListDispatchesK(ApiRequest(w, "news_feed", net), net, clk)

\* d = list(get_dispatches())[j]; get_dispatch(d.id): g is what get_dispatch
\* returned, built from the payload of request n.
RoundTripG(g, n) ==
    IF g.err # "none" \/ g.val = None THEN g
    ELSE Ret(g.w, "none", DispatchOf(g.val.i, n))

RoundTripL(l, j, net, clk) ==
    IF l.r.err # "none" THEN l.r
    ELSE RoundTripG(GetDispatch(l.r.w, l.items[j], 0, net, clk), l.r.w.nreq + 1)

DispatchRoundTrip(w, j, net, clk) == RoundTripL(ListDispatches(w, net, clk), j, net, clk)

\* ds = list(client.dispatches.get_dispatches()); client.dispatches.get_dispatch(ds[j].id)
CallDispatchRoundTrip(j, ok, okS) ==
    /\ Done(DispatchRoundTrip(World, j, NetGet(ok, okS), clock),
            "dispatch.roundtrip", IntV(j), DispatchOf(j, 1), <<>>)
    /\ UNCHANGED getFrame

InitGet == ClientInit /\ entity = None /\ ConcIdle /\ ProjIdle /\ EvalIdle

NextGet ==
    \/ \E id \in 0..NPlanets, ok \in BOOLEAN : CallGetPlanet(id, ok)
    \/ \E id \in 1..(NDispatches + 1), bad \in 0..NDispatches, ok \in BOOLEAN, okS \in BOOLEAN :
           CallGetDispatch(id, bad, ok, okS)
    \/ \E count \in 0..(NDispatches + 1), bad \in 0..NDispatches, ok \in BOOLEAN, okS \in BOOLEAN :
           CallGetLatestDispatches(count, bad, ok, okS)
    \/ \E id \in 0..NPlanets, ok \in BOOLEAN : CallGetPlanetStatistics(id, ok)
    \/ \E p \in 0..NPlanets, okP \in BOOLEAN, okS \in BOOLEAN : CallGetCampaignByPlanet(p, okP, okS)
    \/ \E id \in 1..(NAssignments + 1), miss \in Misses, ok \in BOOLEAN :
           CallGetAssignment(id, miss, ok)
    \/ \E id \in 1..(NCampaigns + 1), miss \in Misses, ok \in BOOLEAN :
           CallGetCampaign(id, miss, ok)
    \/ \E bad \in 0..NAssignments, ok \in BOOLEAN : CallGetAllAssignments(bad, ok)
    \/ \E j \in DispatchIds, ok \in BOOLEAN, okS \in BOOLEAN : CallDispatchRoundTrip(j, ok, okS)

SpecGet == InitGet /\ [][NextGet]_vars

\* C16: a get-by-id accessor asked for an id no entity has returns None and does
\* not raise: get_planet, get_dispatch, get_planet_statistics,
\* get_campaign_by_planet, get_assignment, get_campaign.  (SpecGet)
ByIdOps ==
    {"get_planet", "get_dispatch", "planet_statistics", "campaign_by_planet",
     "get_assignment", "get_campaign"}

AbsentId(op, id) ==
    IF op \in {"get_planet", "planet_statistics"} THEN id \notin PlanetIds
    ELSE IF op = "get_dispatch" THEN id \notin DispatchIds
    ELSE IF op = "campaign_by_planet" THEN \A c \in CampaignIds : CampaignPlanetIndex(c) # id
    ELSE IF op = "get_assignment" THEN id \notin AssignmentIds
    ELSE id \notin CampaignIds

C16_AbsentIdGivesNone ==
    (/\ last.op \in ByIdOps /\ AbsentId(last.op, last.inst.i)
     /\ last.nfail = 0
     /\ last.op = "get_dispatch" => last.before.i = 0)
        => (last.err = "none" /\ last.res = None)

\* C19: when one element of a collection payload is malformed, the caller of the
\* collection accessor still gets every well-formed element of that payload.
\* (SpecGet)
C19_SiblingsDelivered ==
    /\ (/\ last.op = "latest_dispatches" /\ last.nfail = 0
        /\ last.before.i # 0 /\ last.inst.i >= NDispatches)
           => \A d \in DispatchIds \ {last.before.i} :
                  \E j \in DOMAIN last.items : last.items[j] = d
    /\ (last.op = "all_assignments" /\ last.nfail = 0 /\ last.before.i # 0)
           => \A a \in AssignmentIds \ {last.before.i} :
                  \E j \in DOMAIN last.items : last.items[j] = a

\* C21: constructing an entity from a payload makes no request through the API
\* client and raises no error of a fetch: a Dispatch is built with no request,
\* and get_major_order makes only its own request for the payload.  (SpecClock)
C21_ConstructionMakesNoCall ==
    /\ last.op = "dispatch.new" => (last.nreq = 0 /\ last.err = "none")
    /\ last.op = "major_order.new" => (last.nreq <= 1 /\ (last.nfail = 0 => last.err = "none"))

\* C22: for a dispatch d that get_dispatches() listed, get_dispatch(d.id)
\* returns a dispatch that compares equal to d.  (SpecGet)
C22_LookupEqualsListedDispatch ==
    (last.op = "dispatch.roundtrip" /\ last.err = "none")
        => (last.res # None /\ DispatchEq(last.before, last.res))

\* C23: for a text that contains no markup tag, hdml_to_md and as_plaintext
\* both return the text unchanged.  A tag is a "<", one or more characters
\* other than angle brackets, and a ">".  (SpecEval)
HasTag(x) ==
    \E p \in DOMAIN x, q \in DOMAIN x :
        /\ p + 1 < q /\ x[p] = "<" /\ x[q] = ">"
        /\ \A k \in (p + 1)..(q - 1) : x[k] \notin {"<", ">"}

C23_PlainTextUnchanged ==
    (call.fn = "markup" /\ result.st = "done" /\ ~HasTag(call.text))
        => (result.val.md = call.text /\ result.val.plain = call.text)

\* C24: reading liberation_percentage of a campaign resolves the campaign's
\* planet, that planet's status and planet info, and returns
\* 100 * (1 - health / max_health) rounded to 2 decimals (here in hundredths).
\* (Spec)
C24_LiberationPercentage ==
    (last.op = "campaign.liberation" /\ last.nfail = 0)
        => /\ last.err = "none"
           /\ cPlanet[last.inst.i] = PlanetObj(CampaignPlanetIndex(last.inst.i))
           /\ pCache[CampaignPlanetIndex(last.inst.i)].status # None
           /\ pCache[CampaignPlanetIndex(last.inst.i)].planet_info # None
           /\ last.res = IntV(RoundDiv(10000 * (MaxHealthOf(CampaignPlanetIndex(last.inst.i))
                                                 - HealthOf(CampaignPlanetIndex(last.inst.i))),
                                       MaxHealthOf(CampaignPlanetIndex(last.inst.i))))


\* C25: in task projection every tag other than Planet is last-write-wins.
\* When a non-Planet tag occurs several times in valueTypes of a task that
\* decodes, the projected entry of that tag is the single value paired with
\* its last occurrence (an entry holds one value, never a list), and only the
\* Planet entry accumulates.  (SpecProj)
TagPositions(task, tag) ==
    {j \in (DOMAIN task.values) \cap (DOMAIN task.valueTypes) : task.valueTypes[j] = tag}

C25_LastWriteWins ==
    (tOut.st = "done" /\ tOut.err = "none")
        => \A tag \in TaskTags \ {PLANET_INDEX} :
              Cardinality(TagPositions(tIn, tag)) >= 2
                 => /\ tOut.vals.tag[ValueTypeOf(tag)].has
                    /\ tOut.vals.tag[ValueTypeOf(tag)].v =
                           tIn.values[LastOf(TagPositions(tIn, tag))]
                    /\ tOut.vals.tag[ValueTypeOf(tag)].v \in TaskValues

C25_Witness ==
    /\ tOut.st = "done" /\ tOut.err = "none"
    /\ tIn.values = <<7, 9, 7>> /\ tIn.valueTypes = <<RACE, RACE, PLANET_INDEX>>
    /\ tOut.vals.tag[RACE] = [has |-> TRUE, v |-> 9]
    /\ tOut.vals.planet = [kind |-> "scalar", items |-> <<7>>]


\* C26: a task is bound to its progress value by position only.  For the task
\* at position i of an order, get_progress returns progress[i] and is_complete
\* applies the rule of the task's type to progress[i], also when another task
\* of the order has the same type and values; a position past the end of the
\* progress list is an IndexError in both.  (SpecEval)
C26_ProgressByPosition ==
    (call.fn \in {"is_complete", "get_progress"} /\ result.st = "done")
        => IF call.i > Len(call.order.progress)
           THEN result.err = "index"
           ELSE /\ result.err = "none"
                /\ call.fn = "get_progress" => result.val = call.order.progress[call.i]
                /\ call.fn = "is_complete"
                      => (result.val <=> TaskRule(call.order.tasks[call.i],
                                                  call.order.progress[call.i]))

C26_Witness ==
    /\ call.fn = "get_progress" /\ result.st = "done"
    /\ Len(call.order.tasks) = 2 /\ call.order.tasks[1] = call.order.tasks[2]
    /\ call.i = 2
    /\ call.order.progress = <<1, 0>>
    /\ result = Answer("none", 0)


\* C27: get_latest_dispatches(count) returns the count most recent dispatches
\* of the feed in feed order: for every count >= 0 the result has
\* min(count, feed length) elements and is a suffix of the feed.  (SpecGet)
Feed == [d \in DispatchIds |-> d]

C27_LatestIsSuffix ==
    (last.op = "latest_dispatches" /\ last.err = "none")
        => /\ Len(last.items) = (IF last.inst.i <= NDispatches THEN last.inst.i ELSE NDispatches)
           /\ last.items = SubSeq(Feed, NDispatches - Len(last.items) + 1, NDispatches)


\* C28: Planet.is_part_of_major_order is true if and only if some task of the
\* current major order targets the planet with this planet's own index, the
\* planet being one the planet listing yielded and the tasks' planets being
\* looked up in the listing of the same client.  (Spec)
C28_PartOfMajorOrder ==
    (last.op = "planet.is_part_of_major_order" /\ last.nfail = 0)
        => /\ last.err = "none"
           /\ last.res = BoolV(\E j \in DOMAIN last.items :
                                  TaskPayload(last.items[j]).values[2] = last.inst.i)


\* C29: resolving a deferred reference on one entity changes nothing that
\* another lookup depends on.  For every planet p, get_planet_status(p)
\* returns the status entry of p, whether or not the planet accessor of that
\* entry of the memoized Status has been read before.  (Spec)
C29_StatusLookupUnaffected ==
    (last.op = "get_planet_status" /\ last.err = "none")
        => last.res = StatusObj(last.inst.i)


\* C30: a task whose valueTypes contain no Planet tag (for example an Eradicate
\* task with only a race) decodes: from_json raises nothing for it, and the
\* task's projected planet is absent.  (SpecProj)
C30_NoPlanetTagDecodes ==
    (/\ tOut.st = "done"
     /\ \A j \in DOMAIN tIn.valueTypes : tIn.valueTypes[j] # PLANET_INDEX
     /\ Len(tIn.values) <= Len(tIn.valueTypes)
     /\ tIn.type \in MajorOrderTypeCodes)
        => /\ tOut.err = "none"
           /\ tOut.vals.planet.kind = "absent"

=============================================================================
